---- MODULE Spec2Model ----
(***************************************************************************)
(* A model of the transform pipeline of the repository:                    *)
(*   - pennylane/transforms/experimental/transforms.py                     *)
(*       transform, Transform, TransformProgram                            *)
(*   - pennylane/transforms/batch_params.py                                *)
(*       _nested_stack, batch_params, processing_fn                        *)
(*   - pennylane/return_types.py                                           *)
(*       ReturnType, enable_return, disable_return, active_return          *)
(*   - pennylane/transforms/convert_to_numpy_parameters.py                 *)
(*       convert_to_numpy_parameters and its postprocessing function       *)
(*   - pennylane/ops/functions/equal.py                                    *)
(*       equal and the comparisons it dispatches to                        *)
(* Python objects are records; an object's identity is its name or id.     *)
(***************************************************************************)
EXTENDS Integers, Sequences, FiniteSets, TLC

\* ------------------------------------------------------------------ bounds
\* entries ever pushed onto the transform programs, over all nodes
MaxPush == 3
\* largest leading (batch) dimension of a parameter
MaxBatch == 3
\* parameters of a tape, over all its operations
MaxParams == 2
\* gate operations of a tape
MaxOps == 2
\* state-preparation operations of a tape
MaxPrep == 1
\* gate operations of a circuit, and measurements of a circuit
MaxCircuit == 2
\* results of a batch handed to the postprocessing function
MaxResults == 2
\* parameters of an operator handed to equal
MaxData == 2

VARIABLES
    tobjs,      \* the transform objects constructed so far
    program,    \* node -> qnode.transform_program._transform_program
    pushed,     \* history: node -> every Transform pushed, in push order
    popped,     \* history: node -> every tuple pop returned, in pop order
    ret,        \* the last call of the transform module and its outcome
    tape,       \* the tape handed to batch_params
    allOps,     \* the all_operations argument of batch_params
    out,        \* the outcome of batch_params
    activated,  \* ReturnType.activated
    flagLog,    \* history: the last of enable_return / disable_return called,
                \* and ReturnType.activated as it was when batch_params returned
    res,        \* the per-tape results handed to processing_fn
    post,       \* the outcome of processing_fn
    heap,       \* object id -> the operation, measurement or observable
    circuit,    \* the circuit handed to convert_to_numpy_parameters
    conv,       \* the outcome of convert_to_numpy_parameters
    cres,       \* the results handed to cast_result_back_to_initial_interface
    cpost,      \* the outcome of cast_result_back_to_initial_interface
    op1,        \* the first argument of equal
    op2,        \* the second argument of equal
    eq,         \* the flags of the last call of equal and its outcome
    lazy,       \* module name -> the lazy_module object, once constructed
    imports,    \* history: module name -> the top-level imports attempted
    lret,       \* the last operation on a lazy module and its outcome
    local,      \* local path -> the content of the file
    tasks,      \* the futures of the pool of load, in submission order
    loadcall    \* the call of load: its arguments, its position, its outcome

vars == <<tobjs, program, pushed, popped, ret, tape, allOps, out, activated, flagLog, res, post,
          heap, circuit, conv, cres, cpost, op1, op2, eq,
          lazy, imports, lret, local, tasks, loadcall>>
transformVars == <<tobjs, program, pushed, popped, ret>>
batchVars == <<tape, allOps, out>>
postVars == <<activated, flagLog, res, post>>
convertVars == <<heap, circuit, conv, cres, cpost>>
equalVars == <<op1, op2, eq>>
lazyVars == <<lazy, imports, lret>>
loadVars == <<local, tasks, loadcall>>

\* ------------------------------------------------------- sequence helpers
RECURSIVE Reverse(_)
Reverse(s) == IF s = <<>> THEN <<>> ELSE Append(Reverse(Tail(s)), Head(s))

Front(s) == SubSeq(s, 1, Len(s) - 1)

Last(s) == s[Len(s)]

RECURSIVE SumLen(_, _)
SumLen(f, S) ==
    IF S = {} THEN 0
    ELSE LET x == CHOOSE y \in S : TRUE IN Len(f[x]) + SumLen(f, S \ {x})

(***************************************************************************)
(* transforms/experimental/transforms.py                                   *)
(***************************************************************************)
\* the values a transform may be constructed from: two functions and a
\* value that is not callable
Fns == {"f1", "f2"}
NotCallable == "notfn"
InitValues == Fns \cup {NotCallable}

\* the objects a transform may be called with
Nodes == {"qn1", "qn2"}

Obj(k, n) == [kind |-> k, name |-> n]

TapeObjs == {Obj("tape", "tape1")}
NodeObjs == {Obj("qnode", n) : n \in Nodes}
QfuncObjs == {Obj("qfunc", "qfunc1")}
OtherObjs == {Obj("other", "a7")}

\* isinstance(obj, qml.tape.QuantumTape)
IsTape(o) == o.kind = "tape"

\* isinstance(obj, qml.QNodeExperimental)
IsQNode(o) == o.kind = "qnode"

\* callable(obj), mutated: every object is taken to be callable
Callable_any(o) == TRUE

\* callable(obj): nodes and quantum functions are callable, tapes are not
Callable(o) == o.kind \in {"qnode", "qfunc"}

\* keyword arguments: a set of <<key, value>> pairs
NoKwargs == {}
SomeKwargs == {<<"k", "v1">>}

\* the bound arguments of a call: one positional and one keyword argument
BoundArgs == {<<<<Obj("other", "a7")>>, SomeKwargs>>}
FirstObjs == TapeObjs \cup NodeObjs \cup QfuncObjs \cup OtherObjs
\* the (positional, keyword) argument lists a transform is called with:
\* no positional argument at all, or an object followed by bound arguments
CallArgs ==
    {<<<<>>, SomeKwargs>>}
        \cup {<<<<o>> \o b[1], b[2]>> : o \in FirstObjs, b \in BoundArgs}

default_qnode_postprocessing == "default_qnode_postprocessing"
lambda_res_res == "lambda res: res"
None == "None"

\* calling one of the module's postprocessing callables with the positional
\* arguments args: default_qnode_postprocessing takes no argument and
\* returns the identity lambda; the lambda takes one and returns it
CallProcessing(f, args) ==
    IF f = default_qnode_postprocessing
    THEN IF Len(args) = 0
         THEN [kind |-> "return", exc |-> "", val |-> lambda_res_res]
         ELSE [kind |-> "raise", exc |-> "TypeError", val |-> ""]
    ELSE IF Len(args) = 1
         THEN [kind |-> "return", exc |-> "", val |-> args[1]]
         ELSE [kind |-> "raise", exc |-> "TypeError", val |-> ""]

\* class Transform
Transform(fn, args, kwargs, expand_fn, qnode_processing) ==
    [transform_fn |-> fn, targs |-> args, tkwargs |-> kwargs,
     expand_fn |-> expand_fn, qnode_processing |-> qnode_processing]

\* TransformProgram.__init__
TransformProgram == <<>>

\* TransformProgram.push
push(prog, transform) == Append(prog, transform)

\* TransformProgram.pop, mutated: list.pop() instead of list.pop(0)
pop_last(prog) ==
    LET transform == Last(prog)
    IN [prog |-> Front(prog),
        val |-> <<transform.transform_fn, transform.targs, transform.tkwargs,
                  transform.expand_fn, transform.qnode_processing>>]

\* TransformProgram.pop: the program left and the tuple returned
pop(prog) ==
    LET transform == Head(prog)
    IN [prog |-> Tail(prog),
        val |-> <<transform.transform_fn, transform.targs, transform.tkwargs,
                  transform.expand_fn, transform.qnode_processing>>]

\* the fields pop returns for a Transform
Fields(t) ==
    <<t.transform_fn, t.targs, t.tkwargs, t.expand_fn, t.qnode_processing>>

\* transform.__init__: the attributes of the object constructed from fn
\* (self.fn, self._sig, and __wrapped__ set by functools.update_wrapper)
transform_attrs(fn) == [a \in {"fn", "_sig", "__wrapped__"} |-> fn]

\* what the wrapped rewrite function returns for a tape: (tapes, postprocessing_fn)
FnResult(fn, tapeObj, targs, tkwargs) ==
    [tapes |-> <<[of |-> tapeObj.name, by |-> fn, targs |-> targs, tkwargs |-> tkwargs]>>,
     fn |-> "post_" \o fn]

\* the outcome of a call, every field at its default
RetBase ==
    [op |-> "none", kind |-> "return", exc |-> "",
     self |-> "", args |-> <<>>, kwargs |-> NoKwargs,
     isNone |-> FALSE, node |-> "", pair |-> <<>>, wrap |-> <<>>, tuple |-> <<>>,
     invoked |-> <<>>, stages |-> <<>>, applied |-> <<>>, postOrder |-> <<>>]

NoneObj == Obj("none", "None")

\* transform.default_qnode_transform, mutated: the entry is registered with
\* the target node as a bound argument
default_qnode_transform_keeps_obj(self, prog, qnode, targs, tkwargs, expand_fn) ==
    push(prog, Transform(self["fn"], <<qnode>> \o targs, tkwargs, expand_fn,
                         default_qnode_postprocessing))

\* transform.default_qnode_transform: the node's program after the call
default_qnode_transform(self, prog, qnode, targs, tkwargs, expand_fn) ==
    push(prog, Transform(self["fn"], targs, tkwargs, expand_fn,
                         default_qnode_postprocessing))

\* transform.default_qfunc_transform: the closure wrap, which holds the
\* quantum function, self.fn and the bound arguments; nothing runs yet
default_qfunc_transform(self, qfunc, targs, tkwargs) ==
    [qfunc |-> qfunc.name, fn |-> self["fn"], targs |-> targs, tkwargs |-> tkwargs]

\* the entries TransformProgram.push is called with directly: one as the
\* decorator registers it, one with an expansion function and a
\* postprocessing function of its own
PushInputs ==
    {Transform("f1", <<>>, NoKwargs, None, default_qnode_postprocessing),
     Transform("f2", <<>>, NoKwargs, "expand_fn1", lambda_res_res)}

Pushes == SumLen(pushed, Nodes)

\* transform.__init__(fn), mutated: fn is stored without the callable test
transform_init_unchecked(fn) ==
    /\ tobjs' = tobjs \cup {transform_attrs(fn)}
    /\ ret' = [RetBase EXCEPT !.op = "init", !.self = fn]
    /\ UNCHANGED <<program, pushed, popped>>

\* transform.__init__(fn)
transform_init(fn) ==
    /\ IF fn \notin Fns
       THEN /\ ret' = [RetBase EXCEPT !.op = "init", !.self = fn, !.kind = "raise",
                                      !.exc = "OperationTransformError"]
            /\ UNCHANGED tobjs
       ELSE /\ tobjs' = tobjs \cup {transform_attrs(fn)}
            /\ ret' = [RetBase EXCEPT !.op = "init", !.self = fn]
    /\ UNCHANGED <<program, pushed, popped>>

\* transform.__call__(self, *targs, **tkwargs)
call(self, targs, tkwargs) ==
    LET obj == IF targs /= <<>> THEN Head(targs) ELSE NoneObj
        rest == IF targs /= <<>> THEN Tail(targs) ELSE targs
        base == [RetBase EXCEPT !.op = "call", !.self = self["fn"],
                                !.args = targs, !.kwargs = tkwargs]
    IN  /\ self \in tobjs
        /\ IF IsTape(obj)
           THEN \* return self._fn(obj, *targs, **tkwargs)
                /\ IF "_fn" \in DOMAIN self
                   THEN ret' = [base EXCEPT
                                  !.pair = <<FnResult(self["_fn"], obj, rest, tkwargs)>>,
                                  !.invoked = <<self["_fn"]>>]
                   ELSE ret' = [base EXCEPT !.kind = "raise", !.exc = "AttributeError"]
                /\ UNCHANGED <<program, pushed>>
           ELSE IF IsQNode(obj)
           THEN /\ Pushes < MaxPush
                /\ program' = [program EXCEPT ![obj.name] =
                      default_qnode_transform(self, @, obj, rest, tkwargs, None)]
                /\ pushed' = [pushed EXCEPT ![obj.name] =
                      Append(@, Last(program'[obj.name]))]
                /\ ret' = [base EXCEPT !.node = obj.name]
           ELSE IF Callable(obj)
           THEN /\ ret' = [base EXCEPT
                             !.wrap = <<default_qfunc_transform(self, obj, rest, tkwargs)>>]
                /\ UNCHANGED <<program, pushed>>
           ELSE /\ ret' = [base EXCEPT !.isNone = TRUE]
                /\ UNCHANGED <<program, pushed>>
        /\ UNCHANGED <<tobjs, popped>>

\* qnode.transform_program.push(transform)
program_push(n, transform) ==
    /\ Pushes < MaxPush
    /\ program' = [program EXCEPT ![n] = push(@, transform)]
    /\ pushed' = [pushed EXCEPT ![n] = Append(@, transform)]
    /\ ret' = [RetBase EXCEPT !.op = "push", !.node = n, !.isNone = TRUE]
    /\ UNCHANGED <<tobjs, popped>>

\* qnode.transform_program.pop(); list.pop(0) of an empty list raises
program_pop(n) ==
    /\ IF program[n] = <<>>
       THEN /\ ret' = [RetBase EXCEPT !.op = "pop", !.node = n, !.kind = "raise",
                                      !.exc = "IndexError"]
            /\ UNCHANGED <<program, popped>>
       ELSE /\ program' = [program EXCEPT ![n] = pop(@).prog]
            /\ popped' = [popped EXCEPT ![n] = Append(@, pop(program[n]).val)]
            /\ ret' = [RetBase EXCEPT !.op = "pop", !.node = n,
                                      !.tuple = pop(program[n]).val]
    /\ UNCHANGED <<tobjs, pushed>>

\* the node's run loop, one stage after the other until the program is
\* empty: pop the next Transform, apply its function to the current tape
\* batch and keep the postprocessing function it returns
RECURSIVE RunStages(_, _)
RunStages(prog, acc) ==
    IF prog = <<>> THEN acc
    ELSE LET p == pop(prog)
         IN RunStages(p.prog,
                [tuples |-> Append(acc.tuples, p.val),
                 invoked |-> Append(acc.invoked, p.val[1]),
                 batch |-> Append(acc.batch, [by |-> p.val[1], targs |-> p.val[2],
                                              tkwargs |-> p.val[3]]),
                 posts |-> Append(acc.posts, [of |-> p.val])])

\* evaluating node n: the stages run, the device executes the final batch,
\* and the postprocessing functions kept are applied to the raw results,
\* the one kept last first
evaluate(n) ==
    LET run == RunStages(program[n],
                   [tuples |-> <<>>, invoked |-> <<>>, batch |-> <<>>, posts |-> <<>>])
    IN  /\ program' = [program EXCEPT ![n] = <<>>]
        /\ popped' = [popped EXCEPT ![n] = @ \o run.tuples]
        /\ ret' = [RetBase EXCEPT !.op = "evaluate", !.node = n,
                                  !.stages = program[n],
                                  !.applied = run.batch,
                                  !.invoked = run.invoked,
                                  !.postOrder = Reverse(run.posts)]
        /\ UNCHANGED <<tobjs, pushed>>

(***************************************************************************)
(* transforms/batch_params.py                                              *)
(***************************************************************************)
RECURSIVE Sum(_)
Sum(s) == IF s = <<>> THEN 0 ELSE Head(s) + Sum(Tail(s))

RECURSIVE Prod(_)
Prod(s) == IF s = <<>> THEN 1 ELSE Head(s) * Prod(Tail(s))

RECURSIVE Flatten(_)
Flatten(ss) == IF ss = <<>> THEN <<>> ELSE Head(ss) \o Flatten(Tail(ss))

\* the sorted list of a set of integers
RECURSIVE Sorted(_)
Sorted(S) ==
    IF S = {} THEN <<>>
    ELSE LET m == CHOOSE x \in S : \A y \in S : x <= y
         IN <<m>> \o Sorted(S \ {m})

Range(s) == {s[j] : j \in DOMAIN s}

\* an array: its shape and its entries in row-major order; a scalar has
\* shape () and one entry
Array(shape, flat) == [shape |-> shape, flat |-> flat]

\* qml.math.shape(x)
Shape(x) == x.shape

\* x[b], mutated: the first slice whatever the index
Slice_first(x, b) ==
    LET inner == Tail(x.shape)
        size == Prod(inner)
    IN Array(inner, SubSeq(x.flat, 1, size))

\* x[b] for a 0-based index b < shape[0]: the b-th slice along the first axis
Slice(x, b) ==
    LET inner == Tail(x.shape)
        size == Prod(inner)
    IN Array(inner, SubSeq(x.flat, b * size + 1, (b + 1) * size))

\* an operation instance: its identity, its name and its data
Op(id, name, data) == [id |-> id, name |-> name, data |-> data]

\* qml.ops.functions.bind_new_parameters(op, params): a new instance of the
\* same operation with the new data
bind_new_parameters(op, new_params, newId) == Op(newId, op.name, new_params)

\* QuantumScript(ops, measurements, prep, shots=shots), then the assignment
\* of trainable_params
QuantumScript(ops, measurements, prep, shots, trainable_params) ==
    [prep |-> prep, ops |-> ops, measurements |-> measurements, shots |-> shots,
     trainable_params |-> trainable_params]

\* tape.operations: the prep operations, then the gate operations
Operations(t) == t.prep \o t.ops

\* tape.get_parameters(trainable_only=False): the data of the prep
\* operations, then the data of the gate operations
get_parameters(t) ==
    Flatten([k \in 1..Len(Operations(t)) |-> Operations(t)[k].data])

\* the instances of a list of operations
Ids(seq) == {seq[k].id : k \in DOMAIN seq}

\* the running offset, mutated: idx starts again at 0 for the gate operations
IdxAt_restart(seq, k, start) == Sum([j \in 1..(k - 1) |-> Len(seq[j].data)])

\* the running offset idx when the walk reaches the k-th operation of seq,
\* which started at offset start
IdxAt(seq, k, start) == start + Sum([j \in 1..(k - 1) |-> Len(seq[j].data)])

\* the loop, mutated: every operation is rebound, also one with no selected
\* parameter
NewOperations_copies_all(seq, start, params, indices, b, idBase, batch_dim) ==
    [k \in 1..Len(seq) |->
        LET idx == IdxAt(seq, k, start)
        IN bind_new_parameters(seq[k],
               [j \in 1..Len(seq[k].data) |->
                   IF (idx + j - 1) \in Range(indices)
                   THEN Slice(params[idx + j], b)
                   ELSE params[idx + j]],
               idBase + (k - 1) * batch_dim + b + 1)]

\* one pass of the loop over a list of operations (tape.prep, or ops), for
\* batch index b: the operation at position k is rebound to the slices b of
\* its selected parameters, or reused when none of its indices is selected
NewOperations(seq, start, params, indices, b, idBase, batch_dim) ==
    [k \in 1..Len(seq) |->
        LET idx == IdxAt(seq, k, start)
            own == idx..(idx + Len(seq[k].data) - 1)
        IN IF \E i \in own : i \in Range(indices)
           THEN bind_new_parameters(seq[k],
                    [j \in 1..Len(seq[k].data) |->
                        IF (idx + j - 1) \in Range(indices)
                        THEN Slice(params[idx + j], b)
                        ELSE params[idx + j]],
                    idBase + (k - 1) * batch_dim + b + 1)
           ELSE seq[k]]

NoParam == Array(<<>>, <<>>)

Raise(exc, msg, param) ==
    [kind |-> "raise", exc |-> exc, msg |-> msg, param |-> param, tapes |-> <<>>]

\* the selection, mutated: with no trainable parameter every parameter is
\* selected
Indices_falls_back_to_all(t, all_operations) ==
    IF all_operations \/ t.trainable_params = <<>>
    THEN [j \in 1..Len(get_parameters(t)) |-> j - 1]
    ELSE t.trainable_params

\* the indices batch_params selects
Indices(t, all_operations) ==
    IF all_operations
    THEN [j \in 1..Len(get_parameters(t)) |-> j - 1]
    ELSE t.trainable_params

\* the except clause of batch_params: the error raised when the first
\* selected parameter has no dimension
BatchDimError(params, indices) ==
    Raise("ValueError", "does not contain a batch dimension", params[0 + 1])

\* the output tape, mutated: trainable_params is left at the default of a
\* new QuantumScript, every parameter
new_tape_default_trainable(ops, prep, t) ==
    QuantumScript(ops, t.measurements, prep, t.shots,
                  [j \in 1..Len(get_parameters(t)) |-> j - 1])

\* new_tape = QuantumScript(ops, tape.measurements, prep, shots=tape.shots)
\* new_tape.trainable_params = tape.trainable_params
new_tape(ops, prep, t) ==
    QuantumScript(ops, t.measurements, prep, t.shots, t.trainable_params)

\* batch_params(tape, all_operations): the output tapes, or the error raised
batch_params(t, all_operations) ==
    LET params == get_parameters(t)
        indices == Indices(t, all_operations)
    IN  IF indices = <<>>
        THEN Raise("ValueError", "There are no operations to transform", NoParam)
        ELSE IF Shape(params[indices[1] + 1]) = <<>>
        THEN BatchDimError(params, indices)
        ELSE
        LET batch_dim == Shape(params[indices[1] + 1])[1]
            bad == {j \in DOMAIN indices :
                       \/ Len(Shape(params[indices[j] + 1])) = 0
                       \/ Shape(params[indices[j] + 1])[1] /= batch_dim}
        IN  IF bad /= {}
            THEN LET j == CHOOSE x \in bad : \A y \in bad : x <= y
                 IN Raise("ValueError", "has incorrect batch dimension",
                          params[indices[j] + 1])
            ELSE
            LET ops == SelectSeq(Operations(t), LAMBDA op : op.id \notin Ids(t.prep))
                nIn == Len(Operations(t))
                prepData == Sum([k \in 1..Len(t.prep) |-> Len(t.prep[k].data)])
                new_preps == [b \in 1..batch_dim |->
                    NewOperations(t.prep, 0, params, indices, b - 1, nIn, batch_dim)]
                new_ops == [b \in 1..batch_dim |->
                    NewOperations(ops, prepData, params, indices, b - 1,
                                  nIn + Len(t.prep) * batch_dim, batch_dim)]
            IN [kind |-> "return", exc |-> "", msg |-> "", param |-> NoParam,
                tapes |-> [b \in 1..batch_dim |-> new_tape(new_ops[b], new_preps[b], t)]]

\* a per-tape result: an array, or a tuple of results
Arr(shape, flat) == [tag |-> "arr", shape |-> shape, flat |-> flat, items |-> <<>>]
Tup(items) == [tag |-> "tuple", shape |-> <<>>, flat |-> <<>>, items |-> items]

\* the array numpy makes of a result: a tuple of equal-shaped arrays becomes
\* one array with a new leading axis
RECURSIVE AsArray(_)
AsArray(r) ==
    IF r.tag = "arr" THEN r
    ELSE LET inner == [k \in 1..Len(r.items) |-> AsArray(r.items[k])]
         IN Arr(<<Len(inner)>> \o inner[1].shape,
                Flatten([k \in 1..Len(inner) |-> inner[k].flat]))

\* qml.math.stack(res): the results joined along a new first axis
stack(rs) == AsArray(Tup(rs))

\* qml.math.squeeze(x): every axis of length one removed
squeeze(x) == Arr(SelectSeq(x.shape, LAMBDA d : d /= 1), x.flat)

\* _nested_stack(res)
RECURSIVE _nested_stack(_)
_nested_stack(rs) ==
    IF rs[1].tag /= "tuple"
    THEN stack(rs)
    ELSE Tup([i \in 1..Len(rs[1].items) |->
                _nested_stack([k \in 1..Len(rs) |-> rs[k].items[i]])])

\* qml.active_return()
active_return == activated

\* processing_fn(res), mutated: the stacked results are squeezed in the new
\* return-shape mode too
processing_fn_squeezes(rs) == squeeze(stack(rs))

\* processing_fn(res), mutated: the mode is the flag as it was when
\* batch_params returned
processing_fn_captures_flag(rs) ==
    IF flagLog.atTransform THEN _nested_stack(rs) ELSE squeeze(stack(rs))

\* processing_fn(res), the closure batch_params returns
processing_fn(rs) ==
    IF active_return THEN _nested_stack(rs) ELSE squeeze(stack(rs))

\* --------------------------------------------------------- the input tapes
\* the shapes of a parameter: a scalar, or a vector of 1..MaxBatch entries
ParamShapes == {<<>>} \cup {<<d>> : d \in 1..MaxBatch}

\* the data lengths of up to maxLen operations
DataLens(maxLen) == UNION {[1..m -> 0..MaxParams] : m \in 0..maxLen}

\* the parameter at 0-based index i of the flattened list: its entries are
\* its own, so that a slice names the parameter and the position it is from
ParamOf(i, shapes) ==
    Array(shapes[i + 1], [j \in 1..Prod(shapes[i + 1]) |-> 10 * (i + 1) + j])

\* the operations of a tape: every operation is an instance of its own
MakeOps(lens, name, idBase, start, shapes) ==
    [k \in 1..Len(lens) |->
        Op(idBase + k, name,
           [j \in 1..lens[k] |->
               ParamOf(start + Sum(SubSeq(lens, 1, k - 1)) + j - 1, shapes)])]

MakeTape(prepLens, opLens, shapes, trainable) ==
    QuantumScript(MakeOps(opLens, "gate", Len(prepLens), Sum(prepLens), shapes),
                  <<"expval">>,
                  MakeOps(prepLens, "prep", 0, 0, shapes),
                  "None",
                  Sorted(trainable))

\* the shot specification and the measurements of an input tape
Executions == {<<"None", <<"expval">>>>, <<"Shots(100)", <<"expval", "probs">>>>}

NoTape == QuantumScript(<<>>, <<>>, <<>>, "None", <<>>)
NoOut == [kind |-> "none", exc |-> "", msg |-> "", param |-> NoParam, tapes |-> <<>>]
NoPost == [kind |-> "none", mode |-> FALSE, val |-> Arr(<<>>, <<>>)]

\* the result the device returns for output tape b: a scalar, an array of
\* one entry, or a tuple of two scalars (two measurements)
ResultKinds == {"scalar", "one", "pair"}
Result(kind, b) ==
    IF kind = "scalar" THEN Arr(<<>>, <<100 * b>>)
    ELSE IF kind = "one" THEN Arr(<<1>>, <<100 * b>>)
    ELSE Tup(<<Arr(<<>>, <<100 * b + 1>>), Arr(<<>>, <<100 * b + 2>>)>>)

\* ------------------------------------------------------------ the actions
\* output_tapes, processing_fn = batch_params(tape, all_operations)
BatchParams ==
    /\ out.kind = "none"
    /\ out' = batch_params(tape, allOps)
    /\ UNCHANGED <<tape, allOps, postVars>>

\* processing_fn(res), with one result per output tape
ProcessingFn(kind) ==
    /\ out.kind = "return"
    /\ post.kind = "none"
    /\ res' = [b \in 1..Len(out.tapes) |-> Result(kind, b)]
    /\ post' = [kind |-> "return", mode |-> active_return, val |-> processing_fn(res')]
    /\ UNCHANGED <<tape, allOps, out, activated, flagLog>>

\* the log after a call of enable_return or disable_return that sets the
\* flag to value: until batch_params has returned, the flag it will find
FlagLogged(name, value) ==
    [last |-> name,
     atTransform |-> IF out.kind = "none" THEN value ELSE flagLog.atTransform]

\* enable_return()
enable_return ==
    /\ activated' = TRUE
    /\ flagLog' = FlagLogged("enable_return", TRUE)
    /\ UNCHANGED <<tape, allOps, out, res, post>>

\* disable_return()
disable_return ==
    /\ activated' = FALSE
    /\ flagLog' = FlagLogged("disable_return", FALSE)
    /\ UNCHANGED <<tape, allOps, out, res, post>>

(***************************************************************************)
(* transforms/convert_to_numpy_parameters.py                               *)
(***************************************************************************)
\* the interfaces a parameter can be tagged with
Interfaces == {"numpy", "autograd", "torch"}

\* a parameter: its interface and its numeric value
Param(interface, val) == [interface |-> interface, val |-> val]

\* math.get_interface(*values): the interface of highest priority among the
\* values, the plain numeric interface when there is no other
get_interface(values) ==
    LET found == {values[k].interface : k \in DOMAIN values}
    IN IF "torch" \in found THEN "torch"
       ELSE IF "autograd" \in found THEN "autograd"
       ELSE "numpy"

\* math.unwrap(values): the values as plain numeric data
unwrap(values) == [k \in DOMAIN values |-> Param("numpy", values[k].val)]

\* an object of the heap: an operation or observable with its data, a
\* Tensor with its constituent observables (obs), or a measurement with its
\* observable (obs, empty for None)
Object(cls, data, obs) == [cls |-> cls, data |-> data, obs |-> obs]

\* obs.data: a Tensor holds the data of its constituents, in order
ObsData(h, o) ==
    IF h[o].cls = "Tensor"
    THEN Flatten([k \in DOMAIN h[o].obs |-> h[h[o].obs[k]].data])
    ELSE h[o].data

\* obs.data = unwrapped data: a Tensor hands entry k to its constituent k
SetObsData(h, o) ==
    IF h[o].cls = "Tensor"
    THEN [x \in DOMAIN h |->
            IF x \in Range(h[o].obs)
            THEN [h[x] EXCEPT !.data = unwrap(h[x].data)]
            ELSE h[x]]
    ELSE [h EXCEPT ![o].data = unwrap(h[o].data)]

\* copy.copy(x): a new instance with the attributes of x; an attribute that
\* refers to an object refers to the same object in the copy
copy_copy(h, x, newId) == (newId :> h[x]) @@ h

\* copy.copy(m) of a measurement: the copy made by the class of m refers to
\* the observable of m (shares_obs), or to a copy.copy of that observable
copy_measurement(h, m, newId, obsId, shares_obs) ==
    IF shares_obs \/ h[m].obs = <<>>
    THEN copy_copy(h, m, newId)
    ELSE [copy_copy(copy_copy(h, m, newId), h[m].obs[1], obsId) EXCEPT ![newId].obs = <<obsId>>]

\* the conversion of an operation, mutated: a copy is made of every operation
_convert_op_to_numpy_data_copies_all(h, op, newId) ==
    [heap |-> [copy_copy(h, op, newId) EXCEPT ![newId].data = unwrap(h[op].data)],
     ref |-> newId]

\* _convert_op_to_numpy_data(op): the heap after the call and the instance
\* returned
_convert_op_to_numpy_data(h, op, newId) ==
    IF get_interface(h[op].data) = "numpy"
    THEN [heap |-> h, ref |-> op]
    ELSE [heap |-> [copy_copy(h, op, newId) EXCEPT ![newId].data = unwrap(h[op].data)],
          ref |-> newId]

\* _convert_measurement_to_numpy_data(m): the heap after the call and the
\* instance returned; the unwrapped data is assigned through copied_m.obs
_convert_measurement_to_numpy_data(h, m, newId, obsId, shares_obs) ==
    IF h[m].obs = <<>> \/ get_interface(ObsData(h, h[m].obs[1])) = "numpy"
    THEN [heap |-> h, ref |-> m]
    ELSE LET copied == copy_measurement(h, m, newId, obsId, shares_obs)
         IN [heap |-> SetObsData(copied, copied[newId].obs[1]), ref |-> newId]

\* a generator (convert(x) for x in seq), consumed from first to last
RECURSIVE ConvertEach(_, _, _, _, _)
ConvertEach(h, seq, isMeasurement, offset, shares_obs) ==
    IF seq = <<>> THEN [heap |-> h, refs |-> <<>>]
    ELSE LET first == IF isMeasurement
                      THEN _convert_measurement_to_numpy_data(
                               h, Head(seq), Head(seq) + offset,
                               IF h[Head(seq)].obs = <<>> THEN 0
                               ELSE h[Head(seq)].obs[1] + offset,
                               shares_obs)
                      ELSE _convert_op_to_numpy_data(h, Head(seq), Head(seq) + offset)
             rest == ConvertEach(first.heap, Tail(seq), isMeasurement, offset, shares_obs)
         IN [heap |-> rest.heap, refs |-> <<first.ref>> \o rest.refs]

\* circuit.__class__(ops, measurements, prep, shots=shots), then the
\* assignments of trainable_params and _qfunc_output
Circuit(ops, measurements, prep, shots, trainable_params, qfunc_output) ==
    [prep |-> prep, ops |-> ops, measurements |-> measurements, shots |-> shots,
     trainable_params |-> trainable_params, qfunc_output |-> qfunc_output]

\* circuit.get_parameters(): the trainable parameters of the prep
\* operations, then of the gate operations
circuit_get_parameters(h, c) ==
    LET all == Flatten([k \in 1..Len(c.prep \o c.ops) |-> h[(c.prep \o c.ops)[k]].data])
    IN [j \in 1..Len(c.trainable_params) |-> all[c.trainable_params[j] + 1]]

\* the largest id of the heap
MaxId(h) == CHOOSE x \in DOMAIN h \cup {0} : \A y \in DOMAIN h : y <= x

\* convert_to_numpy_parameters(circuit): the heap after the call, the new
\* circuit and the interface the postprocessing function closes over
convert_to_numpy_parameters(h, c, shares_obs) ==
    LET initial_interface == get_interface(circuit_get_parameters(h, c))
        offset == MaxId(h)
        new_ops == ConvertEach(h, c.ops, FALSE, offset, shares_obs)
        new_measurements == ConvertEach(new_ops.heap, c.measurements, TRUE, offset, shares_obs)
        new_prep == ConvertEach(new_measurements.heap, c.prep, FALSE, offset, shares_obs)
    IN [heap |-> new_prep.heap,
        circuit |-> Circuit(new_ops.refs, new_measurements.refs, new_prep.refs, c.shots,
                            c.trainable_params, c.qfunc_output),
        interface |-> initial_interface]

\* a result: a number, a counts mapping, a list or a tuple of results, or
\* an array of some interface
Num(val) == [tag |-> "num", interface |-> "numpy", val |-> val, items |-> <<>>]
Counts(val) == [tag |-> "dict", interface |-> "", val |-> val, items |-> <<>>]
PyList(items) == [tag |-> "list", interface |-> "", val |-> 0, items |-> items]
PyTuple(items) == [tag |-> "tuple", interface |-> "", val |-> 0, items |-> items]

\* math.asarray(r, like=like): one array of interface like made of r
math_asarray(r, like) ==
    [tag |-> "array", interface |-> like, val |-> r.val, items |-> r.items]

\* _is_count_result(r)
_is_count_result(r) ==
    \/ r.tag = "dict"
    \/ r.tag = "list" /\ \A i \in DOMAIN r.items : r.items[i].tag = "dict"

\* _recursive_asarray(res, like): the value returned, or IndexError for
\* res_[0] of an empty list
_recursive_asarray(rs, like) ==
    LET res_ == [i \in DOMAIN rs |->
                    IF _is_count_result(rs[i]) THEN rs[i]
                    ELSE IF rs[i].tag /= "tuple" THEN math_asarray(rs[i], like)
                    ELSE PyTuple([j \in DOMAIN rs[i].items |->
                            IF _is_count_result(rs[i].items[j]) THEN rs[i].items[j]
                            ELSE math_asarray(rs[i].items[j], like)])]
    IN IF Len(res_) > 1 THEN [kind |-> "return", exc |-> "", val |-> PyTuple(res_)]
       ELSE IF Len(res_) = 1 THEN [kind |-> "return", exc |-> "", val |-> res_[1]]
       ELSE [kind |-> "raise", exc |-> "IndexError", val |-> PyTuple(<<>>)]

\* cast_result_back_to_initial_interface(results), the closure
\* convert_to_numpy_parameters returns
cast_result_back_to_initial_interface(results, initial_interface) ==
    _recursive_asarray(results, initial_interface)

\* ------------------------------------------------------ the input circuits
\* the interfaces of the data of an input operation
OpInputs == {<<>>, <<"numpy">>, <<"torch">>, <<"numpy", "autograd">>}
PrepInputs == {<<"numpy">>, <<"torch">>}

\* the observable of an input measurement: none, an observable with one
\* parameter, or a Tensor of two observables with one parameter each
MeasurementInputs ==
    {[cls |-> "None", parts |-> <<>>],
     [cls |-> "Observable", parts |-> <<"numpy">>],
     [cls |-> "Observable", parts |-> <<"torch">>],
     [cls |-> "Tensor", parts |-> <<"numpy", "numpy">>],
     [cls |-> "Tensor", parts |-> <<"numpy", "autograd">>]}

\* the data of the object id: its values are its own
DataOf(id, interfaces) ==
    [j \in DOMAIN interfaces |-> Param(interfaces[j], 10 * id + j)]

\* the ids of the k-th measurement, of its observable and of the two
\* constituents of a Tensor
MeasurementId(nOps, k) == nOps + 4 * (k - 1) + 1

\* the heap of a circuit: every operation, measurement and observable is
\* an instance of its own
MakeHeap(prepIn, opsIn, measIn) ==
    LET opIn == prepIn \o opsIn
        nOps == Len(opIn)
        ids == (1..nOps) \cup UNION {
                  {MeasurementId(nOps, k)}
                  \cup (IF measIn[k].cls = "None" THEN {} ELSE {MeasurementId(nOps, k) + 1})
                  \cup (IF measIn[k].cls = "Tensor"
                        THEN {MeasurementId(nOps, k) + 2, MeasurementId(nOps, k) + 3}
                        ELSE {}) : k \in DOMAIN measIn}
    IN [x \in ids |->
          IF x <= nOps THEN Object("Operator", DataOf(x, opIn[x]), <<>>)
          ELSE LET k == ((x - nOps - 1) \div 4) + 1
                   slot == (x - nOps - 1) % 4
                   in == measIn[k]
               IN IF slot = 0
                  THEN Object("MeasurementProcess", <<>>,
                              IF in.cls = "None" THEN <<>> ELSE <<x + 1>>)
                  ELSE IF slot = 1 /\ in.cls = "Tensor"
                  THEN Object("Tensor", <<>>, <<x + 1, x + 2>>)
                  ELSE IF slot = 1
                  THEN Object("Observable", DataOf(x, in.parts), <<>>)
                  ELSE Object("Observable", DataOf(x, <<in.parts[slot - 1]>>), <<>>)]

\* the circuit of a heap made by MakeHeap: every parameter is trainable
MakeCircuit(prepIn, opsIn, measIn) ==
    LET nPrep == Len(prepIn)
        nOps == nPrep + Len(opsIn)
    IN Circuit([k \in 1..Len(opsIn) |-> nPrep + k],
               [k \in 1..Len(measIn) |-> MeasurementId(nOps, k)],
               [k \in 1..nPrep |-> k],
               "None",
               [j \in 1..Len(Flatten(prepIn \o opsIn)) |-> j - 1],
               "qfunc_output")

\* the entries of a results batch: a number, counts, broadcasted counts, a
\* list of numbers, a tuple of a number and counts, and the result of a
\* shot vector, a tuple of tuples of counts and a number
ResultEntries ==
    {Num(1), Counts(1), PyList(<<Counts(1), Counts(2)>>), PyList(<<Num(1), Num(2)>>),
     PyTuple(<<Num(1), Counts(1)>>),
     PyTuple(<<PyTuple(<<Counts(1), Num(1)>>), PyTuple(<<Counts(2), Num(2)>>)>>)}

ResultBatches == UNION {[1..n -> ResultEntries] : n \in 0..MaxResults}

NoCircuit == Circuit(<<>>, <<>>, <<>>, "None", <<>>, "None")
NoConv == [kind |-> "none", circuit |-> NoCircuit, interface |-> "numpy"]
NoCPost == [kind |-> "none", exc |-> "", val |-> PyTuple(<<>>)]

\* no call of convert_to_numpy_parameters is modelled
NoConversion ==
    /\ heap = <<>> /\ circuit = NoCircuit /\ conv = NoConv
    /\ cres = <<>> /\ cpost = NoCPost

\* (new_circuit,), fn = convert_to_numpy_parameters(circuit)
ConvertToNumpyParameters(shares_obs) ==
    /\ conv.kind = "none"
    /\ LET r == convert_to_numpy_parameters(heap, circuit, shares_obs)
       IN /\ heap' = r.heap
          /\ conv' = [kind |-> "return", circuit |-> r.circuit, interface |-> r.interface]
    /\ UNCHANGED <<circuit, cres, cpost>>

\* fn(results)
CastResultBack(results) ==
    /\ conv.kind = "return"
    /\ cpost.kind = "none"
    /\ cres' = results
    /\ cpost' = cast_result_back_to_initial_interface(results, conv.interface)
    /\ UNCHANGED <<heap, circuit, conv>>

(***************************************************************************)
(* ops/functions/equal.py                                                  *)
(***************************************************************************)
\* a parameter of an operator: its value in units of atol, its
\* trainability and its interface
Datum(val, requires_grad, interface) ==
    [val |-> val, requires_grad |-> requires_grad, interface |-> interface]

\* an operator, and a measurement process; obs is empty for None
Operator(cls, arithmetic_depth, data, wires, hyperparameters, inverse) ==
    [cls |-> cls, arithmetic_depth |-> arithmetic_depth, data |-> data, wires |-> wires,
     hyperparameters |-> hyperparameters, inverse |-> inverse,
     return_type |-> "", obs |-> <<>>, eigvals |-> <<>>, log_base |-> 0, H |-> "", k |-> 0]

MeasurementProcess(cls, return_type, obs, wires, eigvals, log_base, H, k) ==
    [cls |-> cls, arithmetic_depth |-> 0, data |-> <<>>, wires |-> wires,
     hyperparameters |-> {}, inverse |-> FALSE,
     return_type |-> return_type, obs |-> obs, eigvals |-> eigvals, log_base |-> log_base,
     H |-> H, k |-> k]

\* the classes of the operators and of the measurement processes
OperatorClasses == {"RX", "Rot", "Sum", "Prod"}
MeasurementClasses == {"MeasurementProcess", "_VnEntropy", "_MutualInfo", "_ShadowExpval"}

\* type(x).__mro__: the class of x, then its base classes
Mro(cls) ==
    IF cls \in OperatorClasses THEN <<cls, "Operator">>
    ELSE IF cls = "MeasurementProcess" THEN <<cls>>
    ELSE <<cls, "MeasurementProcess">>

\* isinstance(x, cls)
isinstance(x, cls) == cls \in Range(Mro(x.cls))

\* the outcome of a call: the value returned, or the exception raised
Returns(val) == [kind |-> "return", exc |-> "", val |-> val]
Raises(exc) == [kind |-> "raise", exc |-> exc, val |-> FALSE]

Abs(n) == IF n < 0 THEN 0 - n ELSE n

\* the default tolerances of equal: atol is the unit of the values, and
\* rtol is one part in RtolInverse
Atol == 1
RtolInverse == 100000

\* qml.math.allclose(d1, d2, rtol=rtol, atol=atol):
\* |d1 - d2| <= atol + rtol * |d2|, which over whole multiples of atol is
\* |d1 - d2| - atol <= the whole part of rtol * |d2|
allclose(d1, d2) ==
    Abs(d1.val - d2.val) - Atol <= Abs(d2.val) \div RtolInverse

\* zip(op1.data, op2.data): the pairs up to the length of the shorter list
zip(s, t) == [j \in 1..(IF Len(s) <= Len(t) THEN Len(s) ELSE Len(t)) |-> <<s[j], t[j]>>]

\* the comparison of two operators, mutated: the wires are compared before
\* the depths
_equal_operator_wires_first(a, b, check_interface, check_trainability) ==
    LET pairs == zip(a.data, b.data)
    IN IF a.wires /= b.wires THEN Returns(FALSE)
       ELSE IF a.arithmetic_depth /= b.arithmetic_depth THEN Returns(FALSE)
       ELSE IF a.arithmetic_depth > 0 THEN Raises("NotImplementedError")
       ELSE IF ~(\A j \in DOMAIN pairs : allclose(pairs[j][1], pairs[j][2])) THEN Returns(FALSE)
       ELSE IF a.hyperparameters /= b.hyperparameters THEN Returns(FALSE)
       ELSE IF check_trainability
               /\ \E j \in DOMAIN pairs : pairs[j][1].requires_grad /= pairs[j][2].requires_grad
       THEN Returns(FALSE)
       ELSE IF check_interface
               /\ \E j \in DOMAIN pairs : pairs[j][1].interface /= pairs[j][2].interface
       THEN Returns(FALSE)
       ELSE Returns(a.inverse = b.inverse)

\* _equal_operator(op1, op2, check_interface, check_trainability)
_equal_operator(a, b, check_interface, check_trainability) ==
    LET pairs == zip(a.data, b.data)
    IN IF a.arithmetic_depth /= b.arithmetic_depth THEN Returns(FALSE)
       ELSE IF a.arithmetic_depth > 0 THEN Raises("NotImplementedError")
       ELSE IF ~(\A j \in DOMAIN pairs : allclose(pairs[j][1], pairs[j][2])) THEN Returns(FALSE)
       ELSE IF a.wires /= b.wires THEN Returns(FALSE)
       ELSE IF a.hyperparameters /= b.hyperparameters THEN Returns(FALSE)
       ELSE IF check_trainability
               /\ \E j \in DOMAIN pairs : pairs[j][1].requires_grad /= pairs[j][2].requires_grad
       THEN Returns(FALSE)
       ELSE IF check_interface
               /\ \E j \in DOMAIN pairs : pairs[j][1].interface /= pairs[j][2].interface
       THEN Returns(FALSE)
       ELSE Returns(a.inverse = b.inverse)

RECURSIVE equal(_, _, _, _)

\* the comparison of the observables, mutated: two absent observables do
\* not match
_equal_measurements_needs_obs(a, b) ==
    LET both == a.obs /= <<>> /\ b.obs /= <<>>
        observables == IF both THEN equal(a.obs[1], b.obs[1], TRUE, TRUE) ELSE Returns(FALSE)
    IN IF observables.kind = "raise" THEN observables
       ELSE Returns(/\ a.return_type = b.return_type
                    /\ observables.val
                    /\ a.wires = b.wires
                    /\ a.eigvals = b.eigvals)

\* _equal_measurements(op1, op2): the observables are compared by equal
\* with its default flags when both are present, by == otherwise
_equal_measurements(a, b) ==
    LET both == a.obs /= <<>> /\ b.obs /= <<>>
        observables == IF both THEN equal(a.obs[1], b.obs[1], TRUE, TRUE)
                       ELSE Returns(a.obs = b.obs)
    IN IF observables.kind = "raise" THEN observables
       ELSE Returns(/\ a.return_type = b.return_type
                    /\ observables.val
                    /\ a.wires = b.wires
                    /\ a.eigvals = b.eigvals)

\* the comparison registered for _VnEntropy and for _MutualInfo
_equal_log_base(a, b) ==
    LET eq_m == _equal_measurements(a, b)
    IN IF eq_m.kind = "raise" THEN eq_m
       ELSE Returns(eq_m.val /\ a.log_base = b.log_base)

\* _equal_shadow_measurements(op1, op2)
_equal_shadow_measurements(a, b) ==
    Returns(/\ a.return_type = b.return_type
            /\ a.wires = b.wires
            /\ a.H = b.H
            /\ a.k = b.k)

\* _equal(op1, op2, **kwargs): the comparison registered for the first
\* class of type(op1).__mro__ that has one
_equal(a, b, check_interface, check_trainability) ==
    IF a.cls \in {"_VnEntropy", "_MutualInfo"} THEN _equal_log_base(a, b)
    ELSE IF a.cls = "_ShadowExpval" THEN _equal_shadow_measurements(a, b)
    ELSE IF isinstance(a, "MeasurementProcess") THEN _equal_measurements(a, b)
    ELSE IF isinstance(a, "Operator")
    THEN _equal_operator(a, b, check_interface, check_trainability)
    ELSE Raises("NotImplementedError")

\* equal(op1, op2, check_interface, check_trainability)
equal(a, b, check_interface, check_trainability) ==
    IF ~isinstance(b, a.cls) THEN Returns(FALSE)
    ELSE _equal(a, b, check_interface, check_trainability)

\* ----------------------------------------------------- the objects compared
\* the parameters of the input operators: three neighbouring values, and
\* one value under other trainability and interface tags
Data ==
    {Datum(0, FALSE, "numpy"), Datum(1, FALSE, "numpy"), Datum(2, FALSE, "numpy"),
     Datum(1, FALSE, "autograd"), Datum(1, TRUE, "autograd")}

DataLists == UNION {[1..n -> Data] : n \in 0..MaxData}

\* the operators of depth zero: every data list on one wire, one data
\* list under other wires, hyperparameters and inverse flags, and two
\* values that differ by twice atol where rtol times the value is atol
Operators ==
    {Operator(cls, 0, data, <<0>>, {}, FALSE) : cls \in {"RX", "Rot"}, data \in DataLists}
    \cup {Operator(cls, 0, <<Datum(0, FALSE, "numpy")>>, <<1>>, {}, FALSE) : cls \in {"RX", "Rot"}}
    \cup {Operator(cls, 0, <<Datum(0, FALSE, "numpy")>>, <<0>>, {<<"id", 1>>}, FALSE) :
             cls \in {"RX", "Rot"}}
    \cup {Operator(cls, 0, <<Datum(0, FALSE, "numpy")>>, <<0>>, {}, TRUE) : cls \in {"RX", "Rot"}}
    \cup {Operator("RX", 0, <<Datum(val, FALSE, "numpy")>>, <<0>>, {}, FALSE) :
             val \in {RtolInverse - 1, RtolInverse + 1}}

\* the operators of an arithmetic depth above zero
DeepOperators ==
    {Operator(cls, d, <<>>, wires, {}, FALSE) :
        cls \in {"Sum", "Prod"}, d \in {1, 2}, wires \in {<<0>>, <<1>>}}

\* the observable of an input measurement: none, an operator of depth zero
\* or an operator of depth one
Observables ==
    {<<>>,
     <<Operator("RX", 0, <<Datum(0, FALSE, "numpy")>>, <<0>>, {}, FALSE)>>,
     <<Operator("RX", 0, <<Datum(0, TRUE, "autograd")>>, <<0>>, {}, FALSE)>>,
     <<Operator("RX", 0, <<Datum(2, FALSE, "numpy")>>, <<0>>, {}, FALSE)>>,
     <<Operator("Sum", 1, <<>>, <<0>>, {}, FALSE)>>}

Measurements ==
    {MeasurementProcess("MeasurementProcess", rt, obs, <<0>>, <<>>, 0, "", 0) :
        rt \in {"expval", "vnentropy"}, obs \in Observables}
    \cup {MeasurementProcess("MeasurementProcess", "expval", <<>>, <<1>>, <<>>, 0, "", 0),
          MeasurementProcess("MeasurementProcess", "expval", <<>>, <<0>>, <<1, -1>>, 0, "", 0)}
    \cup {MeasurementProcess(cls, "vnentropy", <<>>, <<0>>, <<>>, log_base, "", 0) :
             cls \in {"_VnEntropy", "_MutualInfo"}, log_base \in {0, 2}}
    \cup {MeasurementProcess("_VnEntropy", "vnentropy", obs, <<0>>, <<>>, 2, "", 0) :
             obs \in Observables \ {<<>>}}
    \cup {MeasurementProcess("_ShadowExpval", "shadowexpval", <<>>, <<0>>, <<>>, 0, H, k) :
             H \in {"H1", "H2"}, k \in {1, 2}}

Objects == Operators \cup DeepOperators \cup Measurements

NoObject == Operator("None", 0, <<>>, <<>>, {}, FALSE)
NoEq == [kind |-> "none", exc |-> "", val |-> FALSE,
         check_interface |-> TRUE, check_trainability |-> TRUE]

\* equal(op1, op2, check_interface=check_interface,
\*       check_trainability=check_trainability)
Equal(check_interface, check_trainability) ==
    /\ eq.kind = "none"
    /\ LET r == equal(op1, op2, check_interface, check_trainability)
       IN eq' = [kind |-> r.kind, exc |-> r.exc, val |-> r.val,
                 check_interface |-> check_interface,
                 check_trainability |-> check_trainability]
    /\ UNCHANGED <<op1, op2>>

\* no call of equal is modelled
NoComparison == op1 = NoObject /\ op2 = NoObject /\ eq = NoEq

(***************************************************************************)
(* data/base/_lazy_modules.py                                              *)
(***************************************************************************)
\* the top-level import attempts followed per lazy module
MaxImports == 2

\* the modules behind the lazy objects of the file
LazyNames == {"h5py", "fsspec"}

_MISSING_MODULES_EXC == "_MISSING_MODULES_EXC"

\* the import_exc arguments: none, or the exception of the file
ImportExcs == {None, _MISSING_MODULES_EXC}

\* a module object
Module(name) == [name |-> name]

\* the attribute names read from a lazy module: a resource of the module,
\* a submodule that can be imported, and a name that is neither
Attrs == {"File", "sub", "nope"}

\* getattr(self.__module, name) finds the attribute
HasAttr(name) == name = "File"

\* importlib.import_module(f"{self.__module_name}.{name}") succeeds
IsSubmodule(name) == name = "sub"

\* lazy_module(module_name_or_module, import_exc): a module object is kept
\* as the loaded module, a name leaves the object unloaded
lazy_module(module_name_or_module, import_exc) ==
    IF DOMAIN module_name_or_module = {"name"}
    THEN [module |-> <<module_name_or_module>>,
          module_name |-> module_name_or_module.name,
          import_exc |-> import_exc, submods |-> <<>>]
    ELSE [module |-> <<>>,
          module_name |-> module_name_or_module.str,
          import_exc |-> import_exc, submods |-> <<>>]

\* the module name given as a string
Str(s) == [str |-> s]

\* what an attribute access returns: nothing, a resource of the module, or
\* the nested lazy module of a submodule
NoValue == [kind |-> "none", name |-> ""]
Resource(module_name, name) == [kind |-> "resource", name |-> module_name \o "." \o name]
Submodule(lm) == [kind |-> "lazy_module", name |-> lm.module_name]

\* lazy_module.__import_module, mutated: a failed import raises the
\* ImportError itself, not the exception given at construction
__import_module_reraises(self, importable) ==
    IF importable
    THEN [kind |-> "return", exc |-> "",
          self |-> [self EXCEPT !.module = <<Module(self.module_name)>>]]
    ELSE [kind |-> "raise", exc |-> "ImportError", self |-> self]

\* lazy_module.__import_module: importable tells whether
\* importlib.import_module(self.__module_name) succeeds
__import_module(self, importable) ==
    IF importable
    THEN [kind |-> "return", exc |-> "",
          self |-> [self EXCEPT !.module = <<Module(self.module_name)>>]]
    ELSE [kind |-> "raise",
          exc |-> IF self.import_exc /= None THEN self.import_exc ELSE "ImportError",
          self |-> self]

\* lazy_module.__getattr__(name): the outcome, the value returned, the
\* object after the access, and whether the top-level import was attempted
__getattr__(self, name, importable) ==
    LET unloaded == self.module = <<>>
        imp == IF unloaded THEN __import_module(self, importable)
               ELSE [kind |-> "return", exc |-> "", self |-> self]
        s == imp.self
        submod == lazy_module(Module(s.module_name \o "." \o name), None)
    IN IF imp.kind = "raise"
       THEN [kind |-> "raise", exc |-> imp.exc, val |-> NoValue, self |-> s,
             imported |-> unloaded]
       ELSE IF ~unloaded /\ name \in DOMAIN s.submods
       THEN [kind |-> "return", exc |-> "", val |-> Submodule(s.submods[name]),
             self |-> s, imported |-> unloaded]
       ELSE IF HasAttr(name)
       THEN [kind |-> "return", exc |-> "", val |-> Resource(s.module_name, name),
             self |-> s, imported |-> unloaded]
       ELSE IF IsSubmodule(name)
       THEN [kind |-> "return", exc |-> "", val |-> Submodule(submod),
             self |-> [s EXCEPT !.submods = (name :> submod) @@ @],
             imported |-> unloaded]
       ELSE [kind |-> "raise", exc |-> "AttributeError", val |-> NoValue, self |-> s,
             imported |-> unloaded]

NoLRet ==
    [op |-> "none", obj |-> "", name |-> "", kind |-> "return", exc |-> "",
     val |-> NoValue, imported |-> FALSE]

\* no lazy module is constructed
NoLazyModules ==
    /\ lazy = [n \in LazyNames |-> <<>>]
    /\ imports = [n \in LazyNames |-> 0]
    /\ lret = NoLRet

\* n = lazy_module("n", import_exc), the module-level construction
LazyModule(n, import_exc) ==
    /\ lazy[n] = <<>>
    /\ lazy' = [lazy EXCEPT ![n] = <<lazy_module(Str(n), import_exc)>>]
    /\ lret' = [NoLRet EXCEPT !.op = "init", !.obj = n]
    /\ UNCHANGED imports

\* n.name, an attribute access on the lazy module n
GetAttr(n, name, importable) ==
    /\ lazy[n] /= <<>>
    /\ lazy[n][1].module = <<>> => imports[n] < MaxImports
    /\ lazy[n][1].module /= <<>> => importable
    /\ LET r == __getattr__(lazy[n][1], name, importable)
       IN /\ lazy' = [lazy EXCEPT ![n] = <<r.self>>]
          /\ imports' = [imports EXCEPT ![n] = IF r.imported THEN @ + 1 ELSE @]
          /\ lret' = [op |-> "getattr", obj |-> n, name |-> name, kind |-> r.kind,
                      exc |-> r.exc, val |-> r.val, imported |-> r.imported]

(***************************************************************************)
(* data/data_manager/__init__.py                                           *)
(***************************************************************************)
\* the data paths resolve_params can yield, and the num_threads arguments
DataPaths == {"a.h5", "b.h5"}
NumThreads == {1, 2}

S3_URL == "https://datasets.cloud.pennylane.ai/datasets/h5"
folder_path == "datasets"

\* folder_path / data_path
LocalPath(data_path) == folder_path \o "/" \o data_path
LocalPaths == {LocalPath(p) : p \in DataPaths}

\* the content of a local file: absent, there from an earlier run, opened
\* for writing and still empty, or the content served at an s3 path
Absent == "absent"
Earlier == "earlier"
Empty == ""
Content(data_path) == S3_URL \o "/" \o data_path

\* local_path.exists()
exists(files, local_path) == files[local_path] /= Absent

\* the lists of data paths load resolves: distinct paths in any order
DataPathLists ==
    {s \in UNION {[1..n -> DataPaths] : n \in 0..Cardinality(DataPaths)} :
        \A i, j \in DOMAIN s : i /= j => s[i] /= s[j]}

\* dest_paths: the local paths of the data paths, without those that exist
\* unless force is set
dest_paths(files, data_paths, force) ==
    LET missing(local_path) == force \/ ~exists(files, local_path)
    IN SelectSeq([i \in DOMAIN data_paths |-> LocalPath(data_paths[i])], missing)

Min(a, b) == IF a <= b THEN a ELSE b

\* pool.submit(_download_dataset, data_path, dest_path, attributes, cache_dir)
Future(data_path, dest) ==
    [data_path |-> data_path, dest |-> dest, state |-> "queued", exc |-> ""]

\* the futures of zip(data_paths, dest_paths), in submission order
Futures(data_paths, dests) ==
    LET pairs == zip(data_paths, dests)
    IN [i \in DOMAIN pairs |-> Future(pairs[i][1], pairs[i][2])]

Finished(f) == f.state \in {"done", "failed"}
Running(fs) == Cardinality({i \in DOMAIN fs : fs[i].state = "running"})

NoLoadCall ==
    [pc |-> "idle", data_paths |-> <<>>, force |-> FALSE, num_threads |-> 0,
     dest_paths |-> <<>>, max_workers |-> 0, exc |-> "", ret |-> <<>>]

\* load is not called
NoLoad ==
    /\ local = [l \in LocalPaths |-> Absent]
    /\ tasks = <<>>
    /\ loadcall = NoLoadCall

\* load(data_name, folder_path=folder_path, force=force,
\*      num_threads=num_threads, **params), up to the call of wait:
\* ThreadPoolExecutor(max_workers) raises ValueError unless max_workers > 0
load(data_paths, force, num_threads) ==
    /\ loadcall.pc \in {"idle", "returned", "raised"}
    /\ LET dests == dest_paths(local, data_paths, force)
           max_workers == Min(num_threads, Len(dests))
           started == [NoLoadCall EXCEPT !.data_paths = data_paths, !.force = force,
                                      !.num_threads = num_threads,
                                      !.dest_paths = dests]
       IN IF data_paths = <<>>
          THEN /\ loadcall' = [started EXCEPT !.pc = "returned"]
               /\ tasks' = <<>>
          ELSE IF max_workers <= 0
          THEN /\ loadcall' = [started EXCEPT !.pc = "raised", !.exc = "ValueError",
                                           !.max_workers = max_workers]
               /\ tasks' = <<>>
          ELSE /\ loadcall' = [started EXCEPT !.pc = "waiting",
                                           !.max_workers = max_workers]
               /\ tasks' = Futures(data_paths, dests)
    /\ UNCHANGED local

\* a worker thread of the pool takes the oldest queued work item and
\* _download_dataset opens dest for writing
_download_dataset_open(i) ==
    /\ i \in DOMAIN tasks
    /\ tasks[i].state = "queued"
    /\ \A j \in 1..(i - 1) : tasks[j].state /= "queued"
    /\ Running(tasks) < loadcall.max_workers
    /\ tasks' = [tasks EXCEPT ![i].state = "running"]
    /\ local' = [local EXCEPT ![tasks[i].dest] = Empty]
    /\ UNCHANGED loadcall

\* _download_dataset gets the response: raise_for_status raises, or the
\* content is written to dest
_download_dataset_write(i, ok) ==
    /\ i \in DOMAIN tasks
    /\ tasks[i].state = "running"
    /\ IF ok
       THEN /\ tasks' = [tasks EXCEPT ![i].state = "done"]
            /\ local' = [local EXCEPT ![tasks[i].dest] = Content(tasks[i].data_path)]
       ELSE /\ tasks' = [tasks EXCEPT ![i].state = "failed", ![i].exc = "HTTPError"]
            /\ UNCHANGED local
    /\ UNCHANGED loadcall

\* wait(futures, return_when=FIRST_EXCEPTION) returns and the loop over
\* results.done raises the exception of a done future that has one
wait ==
    /\ loadcall.pc = "waiting"
    /\ \/ \E i \in DOMAIN tasks : tasks[i].state = "failed"
       \/ \A i \in DOMAIN tasks : Finished(tasks[i])
    /\ IF \E i \in DOMAIN tasks : tasks[i].state = "failed"
       THEN \E i \in DOMAIN tasks :
               /\ tasks[i].state = "failed"
               /\ loadcall' = [loadcall EXCEPT !.pc = "exiting", !.exc = tasks[i].exc]
       ELSE loadcall' = [loadcall EXCEPT !.pc = "exiting"]
    /\ UNCHANGED <<local, tasks>>

\* ThreadPoolExecutor.__exit__: shutdown(wait=True) returns when every
\* work item has run; then the exception leaves load, or load returns the
\* datasets opened at dest_paths
shutdown ==
    /\ loadcall.pc = "exiting"
    /\ \A i \in DOMAIN tasks : Finished(tasks[i])
    /\ IF loadcall.exc /= ""
       THEN loadcall' = [loadcall EXCEPT !.pc = "raised"]
       ELSE loadcall' = [loadcall EXCEPT !.pc = "returned", !.ret = loadcall.dest_paths]
    /\ UNCHANGED <<local, tasks>>

\* ------------------------------------------------------ the specifications
InitTransform ==
    /\ tobjs = {}
    /\ program = [n \in Nodes |-> TransformProgram]
    /\ pushed = [n \in Nodes |-> <<>>]
    /\ popped = [n \in Nodes |-> <<>>]
    /\ ret = RetBase

InitTape ==
    /\ \E prepLens \in DataLens(MaxPrep), opLens \in DataLens(MaxOps) :
          /\ Sum(prepLens) + Sum(opLens) <= MaxParams
          /\ LET n == Sum(prepLens) + Sum(opLens)
             IN \E shapes \in [1..n -> ParamShapes], trainable \in SUBSET (0..(n - 1)) :
                \E e \in Executions :
                   tape = [MakeTape(prepLens, opLens, shapes, trainable)
                              EXCEPT !.shots = e[1], !.measurements = e[2]]
    /\ allOps \in BOOLEAN
    /\ out = NoOut

InitPost ==
    /\ activated = FALSE
    /\ flagLog = [last |-> "none", atTransform |-> FALSE]
    /\ res = <<>>
    /\ post = NoPost

\* the transform decorator and the transform programs of the nodes
Init ==
    /\ InitTransform
    /\ NoLazyModules
    /\ NoLoad
    /\ tape = NoTape /\ allOps = FALSE /\ out = NoOut
    /\ InitPost
    /\ NoConversion
    /\ NoComparison

Next ==
    \/ \E fn \in InitValues : transform_init(fn) /\ UNCHANGED <<batchVars, postVars, convertVars, equalVars, lazyVars, loadVars>>
    \/ \E self \in tobjs, a \in CallArgs :
          call(self, a[1], a[2]) /\ UNCHANGED <<batchVars, postVars, convertVars, equalVars, lazyVars, loadVars>>
    \/ \E n \in Nodes, t \in PushInputs :
          program_push(n, t) /\ UNCHANGED <<batchVars, postVars, convertVars, equalVars, lazyVars, loadVars>>
    \/ \E n \in Nodes : program_pop(n) /\ UNCHANGED <<batchVars, postVars, convertVars, equalVars, lazyVars, loadVars>>
    \/ \E n \in Nodes : evaluate(n) /\ UNCHANGED <<batchVars, postVars, convertVars, equalVars, lazyVars, loadVars>>

Spec == Init /\ [][Next]_vars

\* batch_params on every tape within the bounds
InitBatch ==
    /\ InitTransform
    /\ NoLazyModules
    /\ NoLoad
    /\ InitTape
    /\ InitPost
    /\ NoConversion
    /\ NoComparison

NextBatch == BatchParams /\ UNCHANGED <<transformVars, convertVars, equalVars, lazyVars, loadVars>>

SpecBatch == InitBatch /\ [][NextBatch]_vars

\* the postprocessing function of batch_params under the return-type flag:
\* the tape has one gate operation, whose parameter is a scalar or has a
\* batch dimension of 1..MaxBatch
InitPostTape ==
    /\ \E shapes \in [1..1 -> ParamShapes], trainable \in SUBSET {0} :
          tape = MakeTape(<<>>, <<1>>, shapes, trainable)
    /\ allOps \in BOOLEAN
    /\ out = NoOut

InitProcessing ==
    /\ InitTransform
    /\ NoLazyModules
    /\ NoLoad
    /\ InitPostTape
    /\ InitPost
    /\ NoConversion
    /\ NoComparison

NextPost ==
    \/ BatchParams /\ UNCHANGED <<transformVars, convertVars, equalVars, lazyVars, loadVars>>
    \/ \E kind \in ResultKinds :
          ProcessingFn(kind) /\ UNCHANGED <<transformVars, convertVars, equalVars, lazyVars, loadVars>>
    \/ enable_return /\ UNCHANGED <<transformVars, convertVars, equalVars, lazyVars, loadVars>>
    \/ disable_return /\ UNCHANGED <<transformVars, convertVars, equalVars, lazyVars, loadVars>>

SpecPost == InitProcessing /\ [][NextPost]_vars

\* convert_to_numpy_parameters on every circuit within the bounds
InitCircuit ==
    /\ \E prepIn \in {<<>>} \cup {<<p>> : p \in PrepInputs},
          opsIn \in UNION {[1..n -> OpInputs] : n \in 0..MaxCircuit},
          measIn \in UNION {[1..n -> MeasurementInputs] : n \in 0..MaxCircuit} :
          /\ heap = MakeHeap(prepIn, opsIn, measIn)
          /\ circuit = MakeCircuit(prepIn, opsIn, measIn)
    /\ conv = NoConv /\ cres = <<>> /\ cpost = NoCPost

InitConvert ==
    /\ InitTransform
    /\ NoLazyModules
    /\ NoLoad
    /\ tape = NoTape /\ allOps = FALSE /\ out = NoOut
    /\ InitPost
    /\ InitCircuit
    /\ NoComparison

NextConvert ==
    \E shares_obs \in BOOLEAN :
        /\ ConvertToNumpyParameters(shares_obs)
        /\ UNCHANGED <<transformVars, batchVars, postVars, equalVars, lazyVars, loadVars>>

SpecConvert == InitConvert /\ [][NextConvert]_vars

\* the postprocessing function of convert_to_numpy_parameters on every
\* results batch within the bounds: the circuit has one gate operation of
\* one parameter
InitCastCircuit ==
    /\ \E i \in Interfaces :
          /\ heap = MakeHeap(<<>>, <<<<i>>>>, <<>>)
          /\ circuit = MakeCircuit(<<>>, <<<<i>>>>, <<>>)
    /\ conv = NoConv /\ cres = <<>> /\ cpost = NoCPost

InitCast ==
    /\ InitTransform
    /\ NoLazyModules
    /\ NoLoad
    /\ tape = NoTape /\ allOps = FALSE /\ out = NoOut
    /\ InitPost
    /\ InitCastCircuit
    /\ NoComparison

NextCast ==
    \/ \E shares_obs \in BOOLEAN :
          /\ ConvertToNumpyParameters(shares_obs)
          /\ UNCHANGED <<transformVars, batchVars, postVars, equalVars, lazyVars, loadVars>>
    \/ \E results \in ResultBatches :
          CastResultBack(results) /\ UNCHANGED <<transformVars, batchVars, postVars, equalVars, lazyVars, loadVars>>

SpecCast == InitCast /\ [][NextCast]_vars

\* equal on every pair of objects within the bounds, under every setting
\* of its two flags
InitEqual ==
    /\ InitTransform
    /\ NoLazyModules
    /\ NoLoad
    /\ tape = NoTape /\ allOps = FALSE /\ out = NoOut
    /\ InitPost
    /\ NoConversion
    /\ op1 \in Objects /\ op2 \in Objects /\ eq = NoEq

NextEqual ==
    \E check_interface \in BOOLEAN, check_trainability \in BOOLEAN :
        /\ Equal(check_interface, check_trainability)
        /\ UNCHANGED <<transformVars, batchVars, postVars, convertVars, lazyVars, loadVars>>

SpecEqual == InitEqual /\ [][NextEqual]_vars

\* the lazy modules of the file, from before their construction
InitLazy ==
    /\ InitTransform
    /\ tape = NoTape /\ allOps = FALSE /\ out = NoOut
    /\ InitPost
    /\ NoConversion
    /\ NoComparison
    /\ NoLazyModules
    /\ NoLoad

NextLazy ==
    \/ \E n \in LazyNames, import_exc \in ImportExcs :
          /\ LazyModule(n, import_exc)
          /\ UNCHANGED <<transformVars, batchVars, postVars, convertVars, equalVars, loadVars>>
    \/ \E n \in LazyNames, name \in Attrs, importable \in BOOLEAN :
          /\ GetAttr(n, name, importable)
          /\ UNCHANGED <<transformVars, batchVars, postVars, convertVars, equalVars, loadVars>>

SpecLazy == InitLazy /\ [][NextLazy]_vars

\* load, called again and again on a folder in which any of the files may
\* be there from an earlier run
InitLoad ==
    /\ InitTransform
    /\ tape = NoTape /\ allOps = FALSE /\ out = NoOut
    /\ InitPost
    /\ NoConversion
    /\ NoComparison
    /\ NoLazyModules
    /\ local \in [LocalPaths -> {Absent, Earlier}]
    /\ tasks = <<>>
    /\ loadcall = NoLoadCall

OtherThanLoad ==
    UNCHANGED <<transformVars, batchVars, postVars, convertVars, equalVars, lazyVars>>

Load ==
    \E data_paths \in DataPathLists, force \in BOOLEAN, num_threads \in NumThreads :
       load(data_paths, force, num_threads) /\ OtherThanLoad
Open == \E i \in 1..Cardinality(DataPaths) : _download_dataset_open(i) /\ OtherThanLoad
Write ==
    \E i \in 1..Cardinality(DataPaths), ok \in BOOLEAN :
       _download_dataset_write(i, ok) /\ OtherThanLoad
Wait == wait /\ OtherThanLoad
Shutdown == shutdown /\ OtherThanLoad

NextLoad == Load \/ Open \/ Write \/ Wait \/ Shutdown

SpecLoad == InitLoad /\ [][NextLoad]_vars

\* the calling thread and the worker threads of the pool are scheduled: a
\* queued work item is taken up, wait returns and the pool is shut down.
\* Nothing bounds the time a download takes (the timeout of requests.get
\* bounds the wait for the next bytes), so a running download need not end.
SpecLoadFair ==
    InitLoad /\ [][NextLoad]_vars /\ WF_vars(Open) /\ WF_vars(Wait) /\ WF_vars(Shutdown)

(***************************************************************************)
(* The claims about transforms/experimental/transforms.py, under Spec      *)
(***************************************************************************)
\* C1: TransformProgram is strict FIFO. On every node, the k-th tuple pop
\* returned holds the fields of the k-th Transform pushed, and the program
\* holds exactly the Transforms pushed and not yet popped, in push order.
C1_StrictFifo ==
    \A n \in Nodes :
        /\ Len(popped[n]) <= Len(pushed[n])
        /\ \A k \in 1..Len(popped[n]) : popped[n][k] = Fields(pushed[n][k])
        /\ program[n] = SubSeq(pushed[n], Len(popped[n]) + 1, Len(pushed[n]))

\* three different Transforms were pushed on a node and pop has just
\* returned the third
C1_Witness ==
    \E n \in Nodes :
        /\ Len(pushed[n]) = 3 /\ Len(popped[n]) = 3
        /\ pushed[n][1] /= pushed[n][2] /\ pushed[n][2] /= pushed[n][3]
        /\ pushed[n][1] /= pushed[n][3]
        /\ ret.op = "pop" /\ ret.node = n /\ ret.tuple = Fields(pushed[n][3])

C3_TapeCallAppliesFn ==
    (ret.op = "call" /\ ret.args /= <<>> /\ IsTape(Head(ret.args))) =>
        /\ ret.kind = "return"
        /\ ret.pair = <<FnResult(ret.self, Head(ret.args), Tail(ret.args), ret.kwargs)>>

\* C4: calling a transform object with a node as the first positional
\* argument appends exactly one entry (the wrapped function, the remaining
\* arguments, the keyword arguments, no expansion function) to the back of
\* that node's program, leaves every other program as it was, returns the
\* node, and invokes no function.
C4_NodeCallRegisters ==
    [][(ret'.op = "call" /\ ret'.args /= <<>> /\ IsQNode(Head(ret'.args))) =>
        LET n == Head(ret'.args).name
            entry == Last(program'[n])
        IN  /\ program'[n] = Append(program[n], entry)
            /\ entry.transform_fn = ret'.self
            /\ entry.targs = Tail(ret'.args)
            /\ entry.tkwargs = ret'.kwargs
            /\ entry.expand_fn = None
            /\ \A m \in Nodes \ {n} : program'[m] = program[m]
            /\ ret'.kind = "return" /\ ret'.node = n /\ ~ret'.isNone
            /\ ret'.invoked = <<>>]_vars

\* a transform was registered on a node whose program held an entry already
C4_Witness ==
    /\ ret.op = "call" /\ ret.args /= <<>> /\ IsQNode(Head(ret.args))
    /\ ret.node = Head(ret.args).name
    /\ Len(program[ret.node]) >= 2
    /\ Last(program[ret.node]).transform_fn = ret.self
    /\ program[ret.node][1].transform_fn /= ret.self

\* C5: the postprocessing default of the entry the decorator registers on a
\* node is identity-like: applied to a result it returns that result.
C5_IdentityPostprocessing ==
    (ret.op = "call" /\ ret.node /= "") =>
        \A r \in {"r1", "r2"} :
            CallProcessing(Last(pushed[ret.node]).qnode_processing, <<r>>)
                = [kind |-> "return", exc |-> "", val |-> r]

(***************************************************************************)
(* The claims about transforms/batch_params.py, under SpecBatch and, for   *)
(* the postprocessing function, SpecPost                                   *)
(***************************************************************************)
\* the selected indices of the input tape, and its parameters
Selected == Range(Indices(tape, allOps))
Params == get_parameters(tape)

\* a scalar
IsScalar(x) == Shape(x) = <<>>

\* the tape of the concrete scenario: no prep, two gate operations of one
\* parameter each, the first a scalar and the second of shape (3,)
Scenario ==
    /\ tape.prep = <<>> /\ Len(tape.ops) = 2
    /\ Len(tape.ops[1].data) = 1 /\ Len(tape.ops[2].data) = 1
    /\ Shape(tape.ops[1].data[1]) = <<>>
    /\ Shape(tape.ops[2].data[1]) = <<3>>

\* operation 1 is the same instance in all three output tapes and
\* operation 2 of output tape b holds the scalar param[b]
ScenarioTapes ==
    /\ out.kind = "return"
    /\ Len(out.tapes) = 3
    /\ \A b \in 1..3 :
          /\ Len(out.tapes[b].ops) = 2
          /\ out.tapes[b].ops[1] = tape.ops[1]
          /\ out.tapes[b].ops[2].data =
                <<Array(<<>>, <<tape.ops[2].data[1].flat[b]>>)>>

\* C6, as claimed: in the concrete scenario batch_params with
\* all_operations=True yields the three output tapes.
C6_AllOperationsScenario ==
    (Scenario /\ allOps /\ out.kind /= "none") => ScenarioTapes

\* C6, amended: in the concrete scenario batch_params yields the three
\* output tapes when only the parameter of operation 2 is selected
\* (all_operations=False, trainable_params = [1]); with all_operations=True
\* the scalar of operation 1 is selected too and the call raises ValueError.
C6_SelectedScenario ==
    (Scenario /\ out.kind /= "none") =>
        /\ (~allOps /\ tape.trainable_params = <<1>>) => ScenarioTapes
        /\ allOps => (out.kind = "raise" /\ out.exc = "ValueError" /\ out.tapes = <<>>)

C6_Witness ==
    /\ Scenario /\ ~allOps /\ tape.trainable_params = <<1>>
    /\ out.kind = "return" /\ Len(out.tapes) = 3
    /\ out.tapes[3].ops[2].data[1].flat = <<23>>

\* the results handed to processing_fn are one scalar per output tape
ScalarResults ==
    /\ post.kind = "return"
    /\ Len(res) = Len(out.tapes)
    /\ \A b \in 1..Len(res) : res[b].tag = "arr" /\ res[b].shape = <<>>

\* the postprocessed value is a sequence of Len(res) entries, the b-th the
\* b-th result
Stacked ==
    /\ post.val.tag = "arr"
    /\ post.val.shape = <<Len(res)>>
    /\ \A b \in 1..Len(res) : post.val.flat[b] = res[b].flat[1]

C8_UniformBatch ==
    \A B \in 1..MaxBatch :
        (/\ out.kind /= "none"
         /\ Selected /= {}
         /\ \A i \in Selected : ~IsScalar(Params[i + 1]) /\ Shape(Params[i + 1])[1] = B)
        => /\ out.kind = "return"
           /\ Len(out.tapes) = B
           /\ \A b \in 1..B : \A i \in Selected :
                 get_parameters(out.tapes[b])[i + 1] =
                     Array(<<>>, <<Params[i + 1].flat[b]>>)

C8_Witness ==
    /\ out.kind = "return" /\ Len(out.tapes) = 3
    /\ Selected = {0, 1}
    /\ get_parameters(out.tapes[2]) = <<Array(<<>>, <<12>>), Array(<<>>, <<22>>)>>

\* the operations of a tape in the order of the walk, and the offset of the
\* k-th of them in the flattened parameter list
Walk(t) == t.prep \o t.ops
OffsetOf(t, k) == Sum([j \in 1..(k - 1) |-> Len(Walk(t)[j].data)])
OwnIndices(t, k) == OffsetOf(t, k)..(OffsetOf(t, k) + Len(Walk(t)[k].data) - 1)

\* C9: with indices assigned by walking the prep operations, then the gate
\* operations, an operation with no selected index is the identical
\* instance in every output tape; an operation with a selected index is
\* rebound per batch index, its selected parameters sliced and its other
\* parameters unchanged.
C9_ReuseAndSlice ==
    out.kind = "return" =>
        \A b \in 1..Len(out.tapes) :
            /\ Len(out.tapes[b].prep) = Len(tape.prep)
            /\ Len(out.tapes[b].ops) = Len(tape.ops)
            /\ \A k \in 1..Len(Walk(tape)) :
                  LET old == Walk(tape)[k]
                      new == Walk(out.tapes[b])[k]
                  IN IF OwnIndices(tape, k) \cap Selected = {}
                     THEN new = old
                     ELSE /\ new.id \notin Ids(Walk(tape))
                          /\ new.name = old.name
                          /\ Len(new.data) = Len(old.data)
                          /\ \A j \in 1..Len(old.data) :
                                new.data[j] =
                                    IF (OffsetOf(tape, k) + j - 1) \in Selected
                                    THEN Array(<<>>, <<old.data[j].flat[b]>>)
                                    ELSE old.data[j]

\* a gate operation of two parameters, the second selected and the first
\* not, was rebound for three batch indices
C9_Witness ==
    /\ out.kind = "return" /\ Len(out.tapes) = 3
    /\ Len(tape.ops) = 1 /\ Len(tape.ops[1].data) = 2
    /\ Selected = {1}
    /\ out.tapes[2].ops[1].data = <<tape.ops[1].data[1], Array(<<>>, <<22>>)>>

\* C10: when batch_params is rejected because the first selected parameter
\* has no dimension, the ValueError names the first selected parameter.
C10_ErrorNamesFirstSelected ==
    (out.kind = "raise" /\ out.msg = "does not contain a batch dimension") =>
        /\ out.exc = "ValueError"
        /\ IsScalar(Params[Indices(tape, allOps)[1] + 1])
        /\ out.param = Params[Indices(tape, allOps)[1] + 1]

\* the selected parameters batch_params rejects: one with no dimension, or
\* one whose leading dimension is not that of the first selected parameter
FirstSelected == Params[Indices(tape, allOps)[1] + 1]
Offending ==
    {i \in Selected :
        \/ IsScalar(Params[i + 1])
        \/ (~IsScalar(FirstSelected) /\ Shape(Params[i + 1])[1] /= Shape(FirstSelected)[1])}

\* C11: whenever a selected parameter has no dimension or a leading
\* dimension other than the batch size of the first selected parameter,
\* batch_params raises ValueError, the error names an offending parameter
\* and no output tape is produced.
C11_ErrorNamesOffending ==
    (out.kind /= "none" /\ Selected /= {} /\ Offending /= {}) =>
        /\ out.kind = "raise" /\ out.exc = "ValueError"
        /\ out.tapes = <<>>
        /\ \E i \in Offending : out.param = Params[i + 1]

\* C12: batch_params raises ValueError when no index is selected: with
\* all_operations=False and no trainable parameter, and with
\* all_operations=True and a tape of no parameter.
C12_NothingSelected ==
    (/\ out.kind /= "none"
     /\ \/ ~allOps /\ tape.trainable_params = <<>>
        \/ allOps /\ Params = <<>>)
    => /\ out.kind = "raise" /\ out.exc = "ValueError"
       /\ out.msg = "There are no operations to transform"
       /\ out.tapes = <<>>

\* a tape of two batched parameters, none of them trainable, was rejected
C12_Witness ==
    /\ ~allOps /\ tape.trainable_params = <<>>
    /\ Len(Params) = 2
    /\ \A i \in 1..2 : Shape(Params[i]) = <<2>>
    /\ out.kind = "raise" /\ out.msg = "There are no operations to transform"

\* C13: every output tape of batch_params has the trainable_params, the
\* shots and the measurements of the input tape, and the call leaves the
\* input tape as it was.
C13_FramePreserved ==
    [][out'.kind = "return" =>
          /\ tape' = tape
          /\ \A b \in 1..Len(out'.tapes) :
                /\ out'.tapes[b].trainable_params = tape.trainable_params
                /\ out'.tapes[b].shots = tape.shots
                /\ out'.tapes[b].measurements = tape.measurements]_vars

\* three output tapes of a tape with shots, two measurements and one
\* trainable parameter out of two
C13_Witness ==
    /\ out.kind = "return" /\ Len(out.tapes) = 3
    /\ tape.shots = "Shots(100)" /\ Len(tape.measurements) = 2
    /\ Len(Params) = 2 /\ tape.trainable_params = <<1>>
    /\ out.tapes[3].trainable_params = <<1>>
    /\ out.tapes[3].shots = "Shots(100)"
    /\ out.tapes[3].measurements = <<"expval", "probs">>

(***************************************************************************)
(* The claims about transforms/convert_to_numpy_parameters.py, under       *)
(* SpecConvert and, for the postprocessing function, SpecCast              *)
(***************************************************************************)
\* C14: convert_to_numpy_parameters leaves every operation, measurement
\* and observable of its input circuit, the constituents of a Tensor
\* included, with the data it had before the call; only objects made by the
\* call hold converted data.
C14_InputUnchanged ==
    [][(conv.kind = "none" /\ conv'.kind = "return") =>
          /\ circuit' = circuit
          /\ \A x \in DOMAIN heap : heap'[x] = heap[x]]_vars

\* the values of a data list, whatever their interface
Values(data) == [j \in DOMAIN data |-> data[j].val]

\* the operation new stands for the operation old: the same instance when
\* the data of old was plain numeric in the heap h before the call, and
\* else an instance made by the call, with the same values as plain
\* numeric data in the heap h2 after the call
OpConverted(h, h2, old, new) ==
    IF get_interface(h[old].data) = "numpy"
    THEN new = old
    ELSE /\ new \notin DOMAIN h
         /\ h2[new].cls = h[old].cls
         /\ get_interface(h2[new].data) = "numpy"
         /\ Values(h2[new].data) = Values(h[old].data)

\* the same for a measurement and the data of its observable
MeasurementConverted(h, h2, old, new) ==
    IF h[old].obs = <<>> \/ get_interface(ObsData(h, h[old].obs[1])) = "numpy"
    THEN new = old
    ELSE /\ new \notin DOMAIN h
         /\ h2[new].cls = h[old].cls
         /\ h2[new].obs /= <<>>
         /\ get_interface(ObsData(h2, h2[new].obs[1])) = "numpy"
         /\ Values(ObsData(h2, h2[new].obs[1])) = Values(ObsData(h, h[old].obs[1]))

\* C15: the returned circuit has as many prep operations, gate operations
\* and measurements as the input, in the same order; at each position it
\* holds the identical instance when the data of the operation, or of the
\* observable of the measurement, was plain numeric or the measurement has
\* no observable, and else a distinct instance whose data is plain numeric.
C15_ReuseOrReplace ==
    [][(conv.kind = "none" /\ conv'.kind = "return") =>
          /\ Len(conv'.circuit.prep) = Len(circuit.prep)
          /\ Len(conv'.circuit.ops) = Len(circuit.ops)
          /\ Len(conv'.circuit.measurements) = Len(circuit.measurements)
          /\ \A k \in DOMAIN circuit.prep :
                OpConverted(heap, heap', circuit.prep[k], conv'.circuit.prep[k])
          /\ \A k \in DOMAIN circuit.ops :
                OpConverted(heap, heap', circuit.ops[k], conv'.circuit.ops[k])
          /\ \A k \in DOMAIN circuit.measurements :
                MeasurementConverted(heap, heap', circuit.measurements[k],
                                     conv'.circuit.measurements[k])]_vars

\* a circuit of a torch prep operation, a torch and a numpy gate operation,
\* a measurement with no observable and one with a torch observable was
\* converted: the numpy operation and the first measurement are reused
C15_Witness ==
    /\ conv.kind = "return"
    /\ Len(circuit.prep) = 1 /\ Len(circuit.ops) = 2 /\ Len(circuit.measurements) = 2
    /\ conv.circuit.prep[1] /= circuit.prep[1]
    /\ conv.circuit.ops[1] /= circuit.ops[1]
    /\ heap[circuit.ops[1]].data = <<Param("torch", 10 * circuit.ops[1] + 1)>>
    /\ heap[conv.circuit.ops[1]].data = <<Param("numpy", 10 * circuit.ops[1] + 1)>>
    /\ conv.circuit.ops[2] = circuit.ops[2]
    /\ heap[circuit.ops[2]].data /= <<>>
    /\ conv.circuit.measurements[1] = circuit.measurements[1]
    /\ conv.circuit.measurements[2] /= circuit.measurements[2]
    /\ heap[conv.circuit.measurements[2]].obs /= <<>>

\* the results the postprocessing function returned, as a sequence: a
\* batch of one result is returned as that result
Returned == IF Len(cres) > 1 THEN cpost.val.items ELSE <<cpost.val>>

\* every count-shaped result inside r is found unchanged at its place in s
RECURSIVE CountsKept(_, _)
CountsKept(r, s) ==
    IF _is_count_result(r) THEN s = r
    ELSE IF r.tag = "tuple"
    THEN /\ s.tag = "tuple"
         /\ Len(s.items) = Len(r.items)
         /\ \A j \in DOMAIN r.items : CountsKept(r.items[j], s.items[j])
    ELSE TRUE

\* C16: the postprocessing function returns every count-shaped result (a
\* mapping, or a list of mappings) unchanged, at every depth of tuples of
\* the results.
C16_CountsUnchanged ==
    cpost.kind = "return" =>
        \A i \in DOMAIN cres : CountsKept(cres[i], Returned[i])

\* s has the nesting of r
RECURSIVE SameNesting(_, _)
SameNesting(r, s) ==
    IF r.tag = "tuple"
    THEN /\ s.tag = "tuple"
         /\ Len(s.items) = Len(r.items)
         /\ \A j \in DOMAIN r.items : SameNesting(r.items[j], s.items[j])
    ELSE s.tag /= "tuple"

\* C17: for a results batch of every length N >= 1 the postprocessing
\* function returns a sequence of length N whose i-th entry has the nesting
\* of the i-th entry of the batch.
C17_StructurePreserved ==
    (cpost.kind /= "none" /\ Len(cres) >= 1) =>
        /\ cpost.kind = "return"
        /\ cpost.val.tag = "tuple"
        /\ Len(cpost.val.items) = Len(cres)
        /\ \A i \in DOMAIN cres : SameNesting(cres[i], cpost.val.items[i])

(***************************************************************************)
(* The claims about ops/functions/equal.py, under SpecEqual                *)
(***************************************************************************)
\* C18: equal returns false for two objects of different classes, a class
\* and a subclass of it included, whatever their data and in both orders
\* of the arguments.
C18_DifferentVariantsUnequal ==
    (eq.kind /= "none" /\ op1.cls /= op2.cls) =>
        (eq.kind = "return" /\ eq.val = FALSE)

\* an operator of arithmetic depth zero
IsDepthZeroOperator(x) == isinstance(x, "Operator") /\ x.arithmetic_depth = 0

\* C19: two operators of depth zero whose data lists differ in length
\* compare unequal, and equal does not raise.
C19_LengthMismatchUnequal ==
    (/\ eq.kind /= "none"
     /\ IsDepthZeroOperator(op1) /\ IsDepthZeroOperator(op2)
     /\ Len(op1.data) /= Len(op2.data))
    => (eq.kind = "return" /\ eq.val = FALSE)

UntaggedData(x) ==
    [x EXCEPT !.data = [j \in DOMAIN x.data |-> Datum(x.data[j].val, FALSE, "numpy")]]
Untagged(x) ==
    [UntaggedData(x) EXCEPT !.obs = [j \in DOMAIN x.obs |-> UntaggedData(x.obs[j])]]

\* an operator of depth zero, or a measurement whose observable is absent
\* or an operator of depth zero
IsComparable(x) ==
    \/ IsDepthZeroOperator(x)
    \/ /\ isinstance(x, "MeasurementProcess")
       /\ x.obs = <<>> \/ x.obs[1].arithmetic_depth = 0

\* C21: with check_interface=False and check_trainability=False two
\* operators, or two measurements, that differ only in the interface and
\* trainability tags of their parameters, or of the parameters of their
\* observables, compare equal.
C21_TagsIgnored ==
    (/\ eq.kind /= "none"
     /\ ~eq.check_interface /\ ~eq.check_trainability
     /\ IsComparable(op1) /\ IsComparable(op2)
     /\ Untagged(op1) = Untagged(op2))
    => (eq.kind = "return" /\ eq.val = TRUE)

\* C22, as claimed: for two operators equal returns false when the depths
\* differ and raises NotImplementedError when the depths are equal and
\* above zero, whatever the data, wires and hyperparameters.
C22_DepthFirst ==
    (eq.kind /= "none" /\ isinstance(op1, "Operator") /\ isinstance(op2, "Operator")) =>
        /\ op1.arithmetic_depth /= op2.arithmetic_depth =>
              (eq.kind = "return" /\ eq.val = FALSE)
        /\ (op1.arithmetic_depth = op2.arithmetic_depth /\ op1.arithmetic_depth > 0) =>
              (eq.kind = "raise" /\ eq.exc = "NotImplementedError")

\* C22, amended: the same for two operators of which the second is an
\* instance of the class of the first; when it is not, equal returns false
\* before the depths are read.
C22_DepthFirstAmended ==
    (eq.kind /= "none" /\ isinstance(op1, "Operator") /\ isinstance(op2, "Operator")) =>
        IF ~isinstance(op2, op1.cls)
        THEN eq.kind = "return" /\ eq.val = FALSE
        ELSE /\ op1.arithmetic_depth /= op2.arithmetic_depth =>
                   (eq.kind = "return" /\ eq.val = FALSE)
             /\ (op1.arithmetic_depth = op2.arithmetic_depth /\ op1.arithmetic_depth > 0) =>
                   (eq.kind = "raise" /\ eq.exc = "NotImplementedError")

\* two operators of one class and of depth one, on different wires, were
\* compared
C22_Witness ==
    /\ eq.kind = "raise" /\ eq.exc = "NotImplementedError"
    /\ op1.cls = "Sum" /\ op2.cls = "Sum"
    /\ op1.arithmetic_depth = 1 /\ op2.arithmetic_depth = 1
    /\ op1.wires /= op2.wires

\* C27: equal(a, b) and equal(b, a), under the same flags, return the same
\* boolean or both raise.
C27_Symmetric ==
    eq.kind /= "none" =>
        LET other == equal(op2, op1, eq.check_interface, eq.check_trainability)
        IN other.kind = eq.kind /\ other.val = eq.val

\* C26: constructing a transform from a value that is not callable raises
\* OperationTransformError and yields no transform object.
C26_NotCallableRejected ==
    /\ (ret.op = "init" /\ ret.self \notin Fns) =>
           (ret.kind = "raise" /\ ret.exc = "OperationTransformError")
    /\ \A t \in tobjs : t["fn"] \in Fns

\* a construction from the value that is not callable was attempted, after
\* a transform object had been constructed
C26_Witness ==
    /\ ret.op = "init" /\ ret.self = NotCallable /\ ret.kind = "raise"
    /\ tobjs /= {}

\* the first positional argument of the call ret reports is absent, or is
\* neither a tape, nor a node, nor a callable
Unhandled(r) ==
    \/ r.args = <<>>
    \/ /\ r.args /= <<>>
       /\ ~IsTape(Head(r.args))
       /\ ~IsQNode(Head(r.args))
       /\ Head(r.args).kind /= "qfunc"

\* C30: a call of a transform object with no positional argument, or with
\* a first positional argument that is neither a tape, nor a node, nor a
\* callable, returns None, invokes no wrapped function and changes no
\* transform program.
C30_UnhandledReturnsNone ==
    [][(ret'.op = "call" /\ Unhandled(ret')) =>
          /\ ret'.kind = "return" /\ ret'.isNone
          /\ ret'.invoked = <<>> /\ ret'.pair = <<>> /\ ret'.wrap = <<>>
          /\ program' = program /\ pushed' = pushed]_vars

\* a transform object was called without positional argument while a
\* program held an entry
C30_Witness ==
    /\ ret.op = "call" /\ ret.args = <<>> /\ ret.isNone
    /\ \E n \in Nodes : program[n] /= <<>>

\* C29: the result-shape mode of the postprocessing function of
\* batch_params is the return-type flag as it is when the function is
\* called: the flag is the setting of the last enable_return or
\* disable_return call (false before any), and the stacking rule applied is
\* the rule of the flag at the call, whatever the flag was when
\* batch_params returned.
C29_FlagReadAtCall ==
    /\ activated = (flagLog.last = "enable_return")
    /\ post.kind = "return" =>
          post.val = IF post.mode THEN _nested_stack(res) ELSE squeeze(stack(res))

\* the flag was switched on between the return of batch_params and the
\* call of the postprocessing function, and the two stacking rules give
\* different results
C29_Witness ==
    /\ post.kind = "return"
    /\ post.mode /\ ~flagLog.atTransform
    /\ _nested_stack(res) /= squeeze(stack(res))

\* C23: a call of load with force=False for data paths whose local files
\* all exist performs no download, overwrites no file and does not raise.
C23_RerunIdempotent ==
    [][(/\ loadcall.pc \in {"idle", "returned", "raised"}
        /\ loadcall'.data_paths /= <<>>
        /\ ~loadcall'.force
        /\ \A i \in DOMAIN loadcall'.data_paths :
              exists(local, LocalPath(loadcall'.data_paths[i])))
       => (loadcall'.pc /= "raised" /\ tasks' = <<>> /\ local' = local)]_vars

\* C24: when a download task of load has failed, its exception reaches the
\* caller of load whether or not the other downloads ever finish.
C24_FailFast ==
    (\E i \in DOMAIN tasks : tasks[i].state = "failed") ~> (loadcall.pc = "raised")

\* the top-level import is attempted by the access that lret reports
ImportAttempted(n) == imports'[n] = imports[n] + 1

\* C25: constructing a lazy module imports nothing; an attribute access on
\* an unloaded lazy module attempts the import; a failed import raises the
\* exception given at construction and leaves the object unloaded, so that
\* the next access attempts the import again; an access on a loaded lazy
\* module attempts no top-level import and leaves it loaded.
C25_LazyImport ==
    [][LET n == lret'.obj
       IN /\ lret'.op = "init" =>
                (imports' = imports /\ lazy'[n][1].module = <<>>)
          /\ (lret'.op = "getattr" /\ lazy[n][1].module = <<>>) =>
                /\ ImportAttempted(n)
                /\ lret'.imported
                /\ lazy'[n][1].module = <<>> =>
                      /\ lret'.kind = "raise"
                      /\ lazy[n][1].import_exc /= None =>
                            lret'.exc = lazy[n][1].import_exc
                /\ lret'.exc \in {"ImportError", _MISSING_MODULES_EXC} =>
                      lazy'[n][1].module = <<>>
          /\ (lret'.op = "getattr" /\ lazy[n][1].module /= <<>>) =>
                (imports' = imports /\ lazy'[n][1].module = lazy[n][1].module)]_vars

\* the first access on a lazy module raised the exception given at
\* construction and a later access imported the module
C25_Witness ==
    \E n \in LazyNames :
       /\ lazy[n] /= <<>>
       /\ lazy[n][1].import_exc = _MISSING_MODULES_EXC
       /\ lazy[n][1].module /= <<>>
       /\ imports[n] = 2
       /\ lret.op = "getattr" /\ lret.obj = n /\ lret.kind = "return"

\* C28: every download task of load fetches a data path p into the local
\* path of the same p.
C28_TaskPathsAligned ==
    \A i \in DOMAIN tasks : tasks[i].dest = LocalPath(tasks[i].data_path)

====
